---- MODULE Spec2Model ----
(***************************************************************************)
(* Model of the subtitle pipeline: the extraction driver `main` of         *)
(* extractor.py with the per-scene subtitle interval detector inside it,   *)
(* the timestamp codec `frames_to_time_str`, the parsing of image names    *)
(* the Drive call `ocr_image_with_google_drive` and the collection loop of  *)
(* `main` of ocr_processor.py, `translate_text_with_gemini` of             *)
(* translator.py, and the `OcrLauncher` of launcher.py with its threads.   *)
(* Each program has its own specification; the variables of the others     *)
(* stay at rest.                                                           *)
(*                                                                         *)
(* A decoded frame is a uniform grey image, so a cropped sub-region is     *)
(* described by the index of the frame it was cut from and its grey level; *)
(* the sum of absolute differences of two sub-regions is then              *)
(* pixels * channels * |level difference|.                                 *)
(***************************************************************************)
EXTENDS Integers, Sequences, FiniteSets, TLC

(***************************************************************************)
(* Bounds of the model.                                                    *)
(***************************************************************************)
\* Number of frames of the video.
NumFrames == 7

\* Number of frames taken after each time boundary by the codec's callers.
MaxOffset == 6

\* Largest number of scene windows the scene detector returns.
MaxScenes == 2

(***************************************************************************)
(* Program constants.                                                      *)
(***************************************************************************)
\* extractor.py:105, the frame rate substituted for fps == 0.
DefaultFps == 25

\* ocr_processor.py:24, the number of attempts of one OCR call.
MAX_RETRIES_OCR == 3

\* translator.py:11, the number of requests of one translation call.
MAX_RETRIES_TRANSLATOR == 5

\* Colour channels of a frame decoded by cv2.VideoCapture (BGR).
Channels == 3

\* Python's None.
None == [none |-> TRUE]

(***************************************************************************)
(* Inputs.                                                                 *)
(***************************************************************************)
\* Rectangles (y1, y2, x1, x2) in original pixel coordinates.
Rectangles == {[y1 |-> 100, y2 |-> 120, x1 |-> 0, x2 |-> 100]}

\* Values of main's roi parameter: absent or a rectangle.
RoiInputs == {None} \cup Rectangles

\* Grey levels of the decoded frames.  Over the 20 x 100 rectangle the levels
\* 0 and 4 differ by 20 * 100 * 3 * 4 = 24000 in total, 255 differs from
\* both by more than 1500000.
PixelLevels == {0, 4, 255}

\* Frame rates reported by cv2.CAP_PROP_FPS (0 when the container has none).
FpsValues == {0, 5, 25}

\* Values of main's change_threshold parameter (--change_threshold, default
\* CHANGE_THRESHOLD = 25000): 24000, so that a diff_score equal to the
\* threshold occurs as well as scores below and above it.
ChangeThresholds == {24000}

\* Files that may lie in the output folder before the run.
OldFiles == {"00_00_00_200__00_00_01_000.png", "notes.txt"}

\* A scene window [start, end) as returned by get_scene_list().
SceneWindow(s, e) == [start |-> s, end |-> e]

\* The scene lists with exactly k windows that partition [from, n).
RECURSIVE Partitions(_, _, _)
Partitions(from, n, k) ==
    IF k = 0 THEN (IF from = n THEN {<<>>} ELSE {})
    ELSE UNION {{<<SceneWindow(from, e)>> \o rest : rest \in Partitions(e, n, k - 1)} :
                e \in (from + 1)..n}

\* What get_scene_list() may return: no scene at all (no cut was found), or
\* contiguous windows covering the video from its first to its last frame.
SceneLists ==
    {<<>>} \cup UNION {Partitions(0, NumFrames, k) : k \in 1..MaxScenes}

(***************************************************************************)
(* Pure helpers.                                                           *)
(***************************************************************************)
Abs(x) == IF x < 0 THEN -x ELSE x

\* f.endswith(suffix)
EndsWith(f, suffix) ==
    /\ Len(f) >= Len(suffix)
    /\ SubSeq(f, Len(f) - Len(suffix) + 1, Len(f)) = suffix

\* Python's truthiness of roi / crop_rect: None is false, a 4-tuple is true.
Truthy(r) == r # None

\* frame[y1:y2, x1:x2]: the sub-region of the frame with index n and grey
\* level lv.
SubRegion(n, lv) == [frame |-> n, level |-> lv]

\* Number of pixels of frame[y1:y2, x1:x2] for a rectangle inside the frame.
Area(r) == (r.y2 - r.y1) * (r.x2 - r.x1)

\* cv2.absdiff(a, b): per-pixel absolute difference of two sub-regions.
AbsDiff(a, b) == [of |-> <<a.frame, b.frame>>, level |-> Abs(a.level - b.level)]

\* np.sum(diff) over all pixels and channels of the rectangle r.
SumDiff(d, r) == Area(r) * Channels * d.level

\* int(fps * 0.2)
MinDurationFrames(fps) == fps \div 5

(***************************************************************************)
(* frames_to_time_str                                                      *)
(***************************************************************************)
\* Left-pads a string of digits with zeros to w characters.
RECURSIVE ZeroPad(_, _)
ZeroPad(s, w) == IF Len(s) < w THEN ZeroPad("0" \o s, w) ELSE s

\* Mutant of FormatD: the number is written without padding, f"{n:d}".
FormatUnpadded(n, w) == ToString(n)

\* f"{n:0{w}d}": the sign if any, then the digits zero-padded so that the
\* whole is at least w characters long.
FormatD(n, w) ==
    IF n < 0 THEN "-" \o ZeroPad(ToString(0 - n), w - 1)
             ELSE ZeroPad(ToString(n), w)

\* The frame counts within 9 frames after the elapsed times 0 s, 59 s, 60 s,
\* 3599 s, 3600 s, 359999 s and 360000 s for which, at the rates 5 and 25,
\* the double product frac * 1000 lies just below the exact integer number
\* of milliseconds, so that int() truncates to one less (e.g. 6 / 5.0 = 1.2,
\* frac = 0.19999999999999996, int(frac * 1000) = 199).  Evaluated in
\* IEEE-754 double arithmetic; no other frame count in those ranges
\* truncates below, and none does at the rate 1.
TruncatedBelow ==
    [r \in {1, 5, 25} |->
        CASE r = 1 -> {}
          [] r = 5 ->
               {6, 7, 297, 299, 302, 304, 307, 309, 17996, 17998, 18001,
                18003, 18006, 18008, 1799998, 1799999, 1800003, 1800004,
                1800008, 1800009}
          [] r = 25 ->
               {1476, 1477, 1478, 1479, 1484, 1501, 1502, 1503, 1504, 1509,
                89976, 89977, 89978, 89979, 89980, 89981, 90001, 90002,
                90003, 90004, 90005, 90006, 8999976, 8999978, 8999979,
                8999981, 8999984, 9000001, 9000003, 9000004, 9000006,
                9000009}]

\* Mutant of Millis: the milliseconds are lost, int(frac) * 1000.
WholeSecondsOnly(frame_count, fps) == 0

\* int(frac * 1000) where frac is the fractional part of frame_count / fps,
\* with the sign of the quotient (np.modf and int both work toward zero).
Millis(frame_count, fps) ==
    LET r     == Abs(fps)
        exact == ((frame_count % r) * 1000) \div r
        ms    == IF frame_count \in TruncatedBelow[r] THEN exact - 1 ELSE exact
    IN  IF fps < 0 THEN 0 - ms ELSE ms

\* The integral part of frame_count / fps, toward zero (np.modf).
WholeSeconds(frame_count, fps) ==
    IF fps < 0 THEN 0 - (frame_count \div (0 - fps)) ELSE frame_count \div fps

\* The numbers frames_to_time_str formats.  Only a rate of exactly zero is
\* replaced (line 105); divmod rounds toward minus infinity, as \div and %
\* do.
TimeFields(frame_count, fps0) ==
    LET fps       == IF fps0 = 0 THEN DefaultFps ELSE fps0
        whole     == WholeSeconds(frame_count, fps)
        remainder == whole % 3600
    IN  [hours   |-> whole \div 3600,
         minutes |-> remainder \div 60,
         seconds |-> remainder % 60,
         ms      |-> Millis(frame_count, fps)]

frames_to_time_str(frame_count, fps0) ==
    LET t == TimeFields(frame_count, fps0)
    IN  FormatD(t.hours, 2) \o "_" \o FormatD(t.minutes, 2) \o "_"
        \o FormatD(t.seconds, 2) \o "_" \o FormatD(t.ms, 3)

\* Mutant of ImgName: the two time strings are joined by one underscore.
ImgNameSingleUnderscore(start_frame, end_frame, fps) ==
    frames_to_time_str(start_frame, fps) \o "_"
    \o frames_to_time_str(end_frame, fps) \o ".png"

\* f"{start_time_str}__{end_time_str}.png"
ImgName(start_frame, end_frame, fps) ==
    frames_to_time_str(start_frame, fps) \o "__"
    \o frames_to_time_str(end_frame, fps) \o ".png"

(***************************************************************************)
(* main of ocr_processor.py, lines 137-148: the time line of a subtitle    *)
(* block, parsed from the name of an image.                                *)
(***************************************************************************)
\* The position of the first occurrence of sep in s, or 0.
Find(s, sep) ==
    LET at == {k \in 1..(Len(s) - Len(sep) + 1) :
                  SubSeq(s, k, k + Len(sep) - 1) = sep}
    IN  IF at = {} THEN 0 ELSE CHOOSE k \in at : \A l \in at : k <= l

\* s.split(sep)
RECURSIVE Split(_, _)
Split(s, sep) ==
    LET k == Find(s, sep)
    IN  IF k = 0 THEN <<s>>
        ELSE <<SubSeq(s, 1, k - 1)>>
             \o Split(SubSeq(s, k + Len(sep), Len(s)), sep)

\* sep.join(parts)
RECURSIVE Join(_, _)
Join(parts, sep) ==
    IF parts = <<>> THEN ""
    ELSE IF Len(parts) = 1 THEN parts[1]
    ELSE parts[1] \o sep \o Join(Tail(parts), sep)

\* s.replace(old, new)
Replace(s, old, new) == Join(Split(s, old), new)

\* os.path.splitext(name)[0]: the name up to its last dot, when that dot
\* follows some other character.
SplitExtRoot(name) ==
    LET dots == {k \in 1..Len(name) : SubSeq(name, k, k) = "."}
        last == CHOOSE k \in dots : \A l \in dots : l <= k
    IN  IF dots = {} \/ dots = 1..Len(name) THEN name
        ELSE SubSeq(name, 1, last - 1)

\* parts[:-1]
AllButLast(parts) == SubSeq(parts, 1, Len(parts) - 1)

\* parts[-1]
Last(parts) == parts[Len(parts)]

\* Lines 139-141 and 144-146: the time of a block from one half of the name.
TimeSrt(part) ==
    LET hms == Join(AllButLast(Split(part, "_")), "_")
        ms  == Last(Split(part, "_"))
    IN  Replace(hms, "_", ":") \o "," \o ms

\* The exception that time_parts[1] raises, caught at line 152.
IndexError == [raised |-> "IndexError"]

\* Lines 137-148: the first line of srt_blocks[start_time_srt].
SrtTimeLine(img_name) ==
    LET time_parts == Split(SplitExtRoot(img_name), "__")
    IN  IF Len(time_parts) < 2 THEN IndexError
        ELSE [line |-> TimeSrt(time_parts[1]) \o " --> "
                       \o TimeSrt(time_parts[2])]

\* Lines 137-141: start_time_srt, the key of the block in srt_blocks.
StartTimeSrt(img_name) ==
    TimeSrt(Split(SplitExtRoot(img_name), "__")[1])

\* The character of s at position k.
CharAt(s, k) == SubSeq(s, k, k)

\* Rank of a character in the character set, for the characters of a name
\* and of a time.
CharRank(c) ==
    CASE c = "," -> 0
      [] c = "-" -> 1
      [] c = "." -> 2
      [] c = ":" -> 13
      [] c = "_" -> 14
      [] OTHER   -> 3 + (CHOOSE d \in 0..9 : ToString(d) = c)

\* s <= t in the order of Python strings, the order of sorted.
RECURSIVE StrLeq(_, _)
StrLeq(s, t) ==
    IF s = "" THEN TRUE
    ELSE IF t = "" THEN FALSE
    ELSE IF CharAt(s, 1) = CharAt(t, 1) THEN StrLeq(Tail(s), Tail(t))
    ELSE CharRank(CharAt(s, 1)) < CharRank(CharAt(t, 1))

\* sorted(keys), line 159.
RECURSIVE Sorted(_)
Sorted(keys) ==
    IF keys = {} THEN <<>>
    ELSE LET least == CHOOSE k \in keys : \A l \in keys : StrLeq(k, l)
         IN  <<least>> \o Sorted(keys \ {least})

(***************************************************************************)
(* State of one run of main.                                               *)
(***************************************************************************)
VARIABLES
    pc,                   \* position of main: "start", "select", "detect",
                          \* "open", "scene", "frame", "broke", "done"
    outcome,              \* how the run ended
    printed,              \* the [ERROR], [WARNING], [SUCCESS] lines printed
    video_ok,             \* input: the video file can be opened
    change_threshold,     \* input: main's change_threshold parameter
    initial_folder,       \* the output folder as it was before the run
    temp_folder,          \* the output folder: whether it exists, its files
    crop_rect,
    scene_list,
    fps,
    total_images_saved,
    i,                    \* index of the current scene (0-based, as enumerate)
    cap_pos,              \* decode cursor of cap (CAP_PROP_POS_FRAMES)
    frame_range,          \* the frame numbers the inner loop has yet to take
    frame_number,
    last_img,
    subtitle_present,
    subtitle_start_frame,
    sub_end_frame,
    diff,
    diff_score,
    intervals,            \* the intervals written so far, in order
    changed               \* the frames of the current scene whose diff_score
                          \* was above the threshold

(***************************************************************************)
(* State of one call of frames_to_time_str on a pair of frame counts.      *)
(***************************************************************************)
VARIABLES
    call,                 \* the arguments: two frame counts and a frame rate
    ret                   \* the strings returned so far, in order

(***************************************************************************)
(* State of one call of ocr_image_with_google_drive.                       *)
(***************************************************************************)
VARIABLES
    ocr_pc,               \* "idle", "while", "create", "export", "delete",
                          \* "returned"
    ocr_retries,          \* retries
    file_id,
    text_content,         \* input: the text Drive recognises in the image
    created,              \* the documents created on Drive by the call
    deleted,              \* the documents whose deletion the call requested
    api_log,              \* the Drive requests made and how each one ended
    ocr_ret               \* None until the call returns, then its value

(***************************************************************************)
(* State of one call of translate_text_with_gemini.                        *)
(***************************************************************************)
VARIABLES
    tr_pc,                \* "idle", "enter", "while", "post", "returned"
    tr_retries,           \* retries
    text,                 \* input: the text to translate
    tr_log,               \* how each request sent so far ended
    tr_ret                \* None until the call returns, then its value

(***************************************************************************)
(* State of one run of main of ocr_processor.py.                           *)
(***************************************************************************)
VARIABLES
    srt_pc,               \* "idle", "start", "collect", "returned"
    credentials,          \* input: whether get_credentials returned any
    image_files,          \* input: the names of the images in the folder
    future_result,        \* input: what the future of each image returns
    pending,              \* the images whose future has not been collected
    processed_count,
    srt_blocks,
    srt_file              \* None, or the strings written to the SRT file

(***************************************************************************)
(* State of the launcher: the OcrLauncher object, the child processes it   *)
(* started, and its threads.                                               *)
(***************************************************************************)
VARIABLES
    process,              \* self.process: None or the child last started
    extract_button,       \* "normal" or "disabled"
    ocr_button,
    translate_button,
    stop_button,
    children,             \* the child processes started, in order
    readers,              \* the read_process_output threads, in order
    fetching              \* the number of fetch threads that are running

main_vars == <<pc, outcome, printed, video_ok, change_threshold,
               initial_folder, temp_folder, crop_rect, scene_list, fps,
               total_images_saved, i, cap_pos, frame_range, frame_number,
               last_img, subtitle_present, subtitle_start_frame,
               sub_end_frame, diff, diff_score, intervals, changed>>

codec_vars == <<call, ret>>

ocr_vars == <<ocr_pc, ocr_retries, file_id, text_content, created, deleted,
              api_log, ocr_ret>>

translator_vars == <<tr_pc, tr_retries, text, tr_log, tr_ret>>

srt_vars == <<srt_pc, credentials, image_files, future_result, pending,
              processed_count, srt_blocks, srt_file>>

buttons == <<extract_button, ocr_button, translate_button, stop_button>>

launcher_vars == <<process, buttons, children, readers, fetching>>

\* The variables of the programs other than main of the extractor, other
\* than frames_to_time_str, other than ocr_image_with_google_drive, other
\* than translate_text_with_gemini, other than main of ocr_processor.py,
\* and other than the launcher.
others == <<codec_vars, ocr_vars, translator_vars, srt_vars, launcher_vars>>
not_codec == <<main_vars, ocr_vars, translator_vars, srt_vars, launcher_vars>>
not_ocr == <<main_vars, codec_vars, translator_vars, srt_vars, launcher_vars>>
not_translator == <<main_vars, codec_vars, ocr_vars, srt_vars, launcher_vars>>
not_srt == <<main_vars, codec_vars, ocr_vars, translator_vars, launcher_vars>>
not_launcher == <<main_vars, codec_vars, ocr_vars, translator_vars, srt_vars>>

vars == <<main_vars, others>>

inputs == <<video_ok, change_threshold, initial_folder>>

history == <<intervals, changed>>

detector == <<last_img, subtitle_present, subtitle_start_frame, sub_end_frame,
              diff, diff_score, frame_number, frame_range, cap_pos>>

\* Content of a file that was in the folder before the run.
Stale == [stale |-> TRUE]

\* A file of the folder.
File(name, content) == [name |-> name, content |-> content]

\* A folder that does not exist, and one that holds the given files.
NoFolder == [exists |-> FALSE, files |-> {}]
Folder(files) == [exists |-> TRUE, files |-> files]

\* The output folder before the run: absent, or holding the old files.
InitialFolders ==
    {NoFolder, Folder({File(f, Stale) : f \in OldFiles})}

\* os.listdir(folder): the names of the files of a folder.
ListDir(folder) == {f.name : f \in folder.files}

\* The .png files of a folder.
PngFiles(folder) == {f \in ListDir(folder) : EndsWith(f, ".png")}

\* cv2.imwrite(os.path.join(folder, name), img): creates or overwrites.
ImWrite(folder, name, img) ==
    Folder({f \in folder.files : f.name # name} \cup {File(name, img)})

\* frames_to_time_str has not been called.
CodecAtRest ==
    /\ call = None
    /\ ret = <<>>

\* ocr_image_with_google_drive has not been called.
OcrAtRest ==
    /\ ocr_pc = "idle"
    /\ ocr_retries = 0
    /\ file_id = None
    /\ text_content = ""
    /\ created = {}
    /\ deleted = {}
    /\ api_log = <<>>
    /\ ocr_ret = None

\* translate_text_with_gemini has not been called.
TranslatorAtRest ==
    /\ tr_pc = "idle"
    /\ tr_retries = 0
    /\ text = ""
    /\ tr_log = <<>>
    /\ tr_ret = None

\* main of ocr_processor.py has not been called.
SrtAtRest ==
    /\ srt_pc = "idle"
    /\ credentials = TRUE
    /\ image_files = {}
    /\ future_result = <<>>
    /\ pending = {}
    /\ processed_count = 0
    /\ srt_blocks = <<>>
    /\ srt_file = None

\* The launcher as __init__ leaves it, lines 20-97: no child process, the
\* three step buttons enabled and the stop button disabled.
LauncherAtRest ==
    /\ process = None
    /\ extract_button = "normal"
    /\ ocr_button = "normal"
    /\ translate_button = "normal"
    /\ stop_button = "disabled"
    /\ children = <<>>
    /\ readers = <<>>
    /\ fetching = 0

OthersAtRest ==
    /\ CodecAtRest
    /\ OcrAtRest
    /\ TranslatorAtRest
    /\ SrtAtRest
    /\ LauncherAtRest

\* Locals of main hold 0 / None / FALSE until they are first assigned.
MainInit ==
    /\ pc = "start"
    /\ outcome = "running"
    /\ printed = <<>>
    /\ video_ok \in BOOLEAN
    /\ change_threshold \in ChangeThresholds
    /\ initial_folder \in InitialFolders
    /\ temp_folder = initial_folder
    /\ crop_rect = None
    /\ scene_list = <<>>
    /\ fps = 0
    /\ total_images_saved = 0
    /\ i = 0
    /\ cap_pos = 0
    /\ frame_range = [lo |-> 0, hi |-> 0]
    /\ frame_number = 0
    /\ last_img = None
    /\ subtitle_present = FALSE
    /\ subtitle_start_frame = 0
    /\ sub_end_frame = 0
    /\ diff = None
    /\ diff_score = 0
    /\ intervals = <<>>
    /\ changed = {}

\* main has not been called.
MainAtRest ==
    /\ MainInit
    /\ video_ok
    /\ initial_folder = NoFolder

Init ==
    /\ MainInit
    /\ OthersAtRest

(***************************************************************************)
(* main, lines 118-128: create the output folder or clear its .png files.  *)
(***************************************************************************)
\* Mutant of ClearedFolder: the old images are not removed.
KeptFolder(folder) == folder

\* The folder after the os.remove loop: every file not ending in .png.
ClearedFolder(folder) ==
    Folder({f \in folder.files : ~EndsWith(f.name, ".png")})

PrepareFolder ==
    /\ pc = "start"
    /\ temp_folder' = IF ~temp_folder.exists
                      THEN Folder({})
                      ELSE ClearedFolder(temp_folder)
    /\ pc' = "select"
    /\ UNCHANGED <<outcome, printed, inputs, others, crop_rect, scene_list, fps,
                   total_images_saved, i, detector, history>>

(***************************************************************************)
(* main, lines 130-133, with select_subtitle_area.                         *)
(***************************************************************************)
\* What select_subtitle_area may return: None when the video cannot be
\* opened (lines 24-26); otherwise None when the user cancels or draws
\* nothing (lines 82, 91), or the rectangle drawn (line 101).
select_subtitle_area == IF video_ok THEN {None} \cup Rectangles ELSE {None}

\* The lines main and select_subtitle_area print when the run ends.
CouldNotOpenVideo == "[ERROR] Could not open video."
NoRegionSelected == "[ERROR] No subtitle region selected. Exiting."
NoScenesDetected == "[WARNING] No scenes were detected. Nothing to extract."
FinishedExtraction == "[SUCCESS] Finished extraction."

\* What select_subtitle_area prints before it returns None: with no roi
\* given it is called, and reports a video it cannot open (lines 24-26).
SelectionErrors(roi) ==
    IF ~Truthy(roi) /\ ~video_ok THEN <<CouldNotOpenVideo>> ELSE <<>>

\* roi is main's parameter, given by the caller.
SelectRegion ==
    /\ pc = "select"
    /\ \E roi \in RoiInputs :
       \E r \in (IF Truthy(roi) THEN {roi} ELSE select_subtitle_area) :
          /\ crop_rect' = r
          /\ IF ~Truthy(r)
             THEN /\ pc' = "done"
                  /\ outcome' = "no_region"
                  /\ printed' = printed \o SelectionErrors(roi)
                                        \o <<NoRegionSelected>>
             ELSE /\ pc' = "detect"
                  /\ UNCHANGED <<outcome, printed>>
    /\ UNCHANGED <<inputs, others, temp_folder, scene_list, fps, total_images_saved, i,
                   detector, history>>

(***************************************************************************)
(* main, lines 136-145: scene detection.  open_video raises when the video *)
(* cannot be opened, and main does not catch it.                           *)
(***************************************************************************)
DetectScenes ==
    /\ pc = "detect"
    /\ IF ~video_ok
       THEN /\ pc' = "done"
            /\ outcome' = "exception"
            /\ UNCHANGED <<scene_list, printed>>
       ELSE \E sl \in SceneLists :
              /\ scene_list' = sl
              /\ IF sl = <<>>
                 THEN /\ pc' = "done"
                      /\ outcome' = "no_scenes"
                      /\ printed' = Append(printed, NoScenesDetected)
                 ELSE /\ pc' = "open"
                      /\ UNCHANGED <<outcome, printed>>
    /\ UNCHANGED <<inputs, others, temp_folder, crop_rect, fps, total_images_saved, i,
                   detector, history>>

(***************************************************************************)
(* main, lines 148-151: open the capture, read the frame rate.             *)
(***************************************************************************)
OpenCapture ==
    /\ pc = "open"
    /\ fps' \in FpsValues
    /\ total_images_saved' = 0
    /\ i' = 0
    /\ pc' = "scene"
    /\ UNCHANGED <<outcome, printed, inputs, others, temp_folder, crop_rect, scene_list,
                   detector, history>>

(***************************************************************************)
(* The subtitle interval detector, main lines 153-198.                     *)
(***************************************************************************)
\* Mutant of IsChange: a score equal to the threshold counts as a change.
IsChangeAtThreshold(score, threshold) == score >= threshold

\* Line 172: the frame differs from the previous one by more than the threshold.
IsChange(score, threshold) == score > threshold

\* Mutant of StartAfterChange: the start frame is recorded on every
\* above-threshold frame (the `if not subtitle_present` guard is missing).
StartAlwaysRecorded(present, start, n) == n

\* Lines 173-175: the start frame after an above-threshold frame.
StartAfterChange(present, start, n) == IF ~present THEN n ELSE start

\* Mutant of CloseEndFrame: the closing frame itself is taken as the end.
CloseAtCurrentFrame(n) == n

\* Line 178: the end frame of an interval closed by frame n.
CloseEndFrame(n) == n - 1

\* Mutant of FlushEndFrame: the window's exclusive end is taken as the end.
FlushAtWindowEnd(scene) == scene.end

\* Line 191: the end frame of an interval still open at the end of a scene.
FlushEndFrame(scene) == scene.end - 1

\* Mutant of FreshLastImg: the previous sub-region is carried over from the
\* scene before (the reset is missing).
CarriedLastImg == last_img

\* Line 156: the previous sub-region a scene starts with.
FreshLastImg == None

\* Mutant of AfterReadFailure: a failed read ends the run (return, not break).
ReturnOnReadFailure == "done"

\* Lines 163-164: where main goes on when cap.read() fails (break).
AfterReadFailure == "broke"

\* Mutant of RepresentativeImage: the newly stabilized frame is written.
StabilizedImage(previous, current) == current

\* Line 184: the image written for an interval closed by a frame, given the
\* previous sub-region and the current one.
RepresentativeImage(previous, current) == previous

\* Line 153: the scene after scene k.
NextScene(k) == k + 1

\* Mutant of PassesDuration: the duration is not checked.
PassesAlways(start, end, rate) == TRUE

\* Mutant of PassesDuration: an interval of exactly the minimum duration passes.
PassesAtMinimum(start, end, rate) == end >= start + MinDurationFrames(rate)

\* Lines 179 and 192: the duration check.
PassesDuration(start, end, rate) == end > start + MinDurationFrames(rate)

\* The record of one interval written (lines 180-185 and 193-198).
Interval(scene, start, end, img, path) ==
    [scene |-> scene, start_frame |-> start, end_frame |-> end,
     image |-> img, name |-> ImgName(start, end, fps), path |-> path]

\* Lines 153-160: reposition the cursor, fresh detector state.
BeginScene ==
    /\ pc = "scene"
    /\ i < Len(scene_list)
    /\ LET scene == scene_list[i + 1]
       IN  /\ cap_pos' = scene.start
           /\ frame_range' = [lo |-> scene.start, hi |-> scene.end]
    /\ last_img' = FreshLastImg
    /\ subtitle_present' = FALSE
    /\ subtitle_start_frame' = 0
    /\ changed' = {}
    /\ pc' = "frame"
    /\ UNCHANGED <<outcome, printed, inputs, others, temp_folder, crop_rect, scene_list, fps,
                   total_images_saved, i, frame_number, sub_end_frame, diff,
                   diff_score, intervals>>

\* Lines 161-164: cap.read() fails, the inner loop is left.
DecodeFailure ==
    /\ pc = "frame"
    /\ frame_range.lo < frame_range.hi
    /\ frame_number' = frame_range.lo
    /\ frame_range' = [frame_range EXCEPT !.lo = @ + 1]
    /\ pc' = AfterReadFailure
    /\ UNCHANGED <<outcome, printed, inputs, others, temp_folder, crop_rect, scene_list, fps,
                   total_images_saved, i, cap_pos, last_img, subtitle_present,
                   subtitle_start_frame, sub_end_frame, diff, diff_score,
                   history>>

\* Lines 161-188: one iteration of the inner loop on a decoded frame of grey
\* level lv.
ProcessFrame(lv) ==
    /\ pc = "frame"
    /\ frame_range.lo < frame_range.hi
    /\ LET n          == frame_range.lo
           sub_region == SubRegion(cap_pos, lv)
           d          == AbsDiff(sub_region, last_img)
           score      == SumDiff(d, crop_rect)
           end        == CloseEndFrame(n)
           img        == RepresentativeImage(last_img, sub_region)
       IN  /\ frame_number' = n
           /\ frame_range' = [frame_range EXCEPT !.lo = @ + 1]
           /\ cap_pos' = cap_pos + 1
           /\ IF last_img = None
              THEN UNCHANGED <<diff, diff_score, subtitle_present,
                               subtitle_start_frame, sub_end_frame, temp_folder,
                               total_images_saved, history>>
              ELSE /\ diff' = d
                   /\ diff_score' = score
                   /\ changed' = IF score > change_threshold
                                 THEN changed \cup {n} ELSE changed
                   /\ IF IsChange(score, change_threshold)
                      THEN /\ subtitle_present' = TRUE
                           /\ subtitle_start_frame' =
                                 StartAfterChange(subtitle_present,
                                                  subtitle_start_frame, n)
                           /\ UNCHANGED <<sub_end_frame, temp_folder,
                                          total_images_saved, intervals>>
                      ELSE IF subtitle_present
                      THEN /\ sub_end_frame' = end
                           /\ IF PassesDuration(subtitle_start_frame, end, fps)
                              THEN /\ temp_folder' =
                                         ImWrite(temp_folder,
                                                 ImgName(subtitle_start_frame, end, fps),
                                                 img)
                                   /\ total_images_saved' = total_images_saved + 1
                                   /\ intervals' = Append(intervals,
                                         Interval(i, subtitle_start_frame, end,
                                                  img, "close"))
                              ELSE UNCHANGED <<temp_folder, total_images_saved,
                                               intervals>>
                           /\ subtitle_present' = FALSE
                           /\ UNCHANGED subtitle_start_frame
                      ELSE UNCHANGED <<subtitle_present, subtitle_start_frame,
                                       sub_end_frame, temp_folder,
                                       total_images_saved, intervals>>
           /\ last_img' = sub_region
    /\ pc' = "frame"
    /\ UNCHANGED <<outcome, printed, inputs, others, crop_rect, scene_list, fps, i>>

\* Lines 190-198, then the next scene: the end-of-scene flush, reached when
\* the frame range is exhausted or the inner loop was left by break.
EndScene ==
    /\ \/ pc = "broke"
       \/ pc = "frame" /\ frame_range.lo >= frame_range.hi
    /\ LET end == FlushEndFrame(scene_list[i + 1])
       IN  IF subtitle_present /\ last_img # None
           THEN /\ sub_end_frame' = end
                /\ IF PassesDuration(subtitle_start_frame, end, fps)
                   THEN /\ temp_folder' =
                              ImWrite(temp_folder,
                                      ImgName(subtitle_start_frame, end, fps),
                                      last_img)
                        /\ total_images_saved' = total_images_saved + 1
                        /\ intervals' = Append(intervals,
                              Interval(i, subtitle_start_frame, end, last_img,
                                       "flush"))
                   ELSE UNCHANGED <<temp_folder, total_images_saved, intervals>>
           ELSE UNCHANGED <<sub_end_frame, temp_folder, total_images_saved,
                            intervals>>
    /\ i' = NextScene(i)
    /\ pc' = "scene"
    /\ UNCHANGED <<outcome, printed, inputs, others, crop_rect, scene_list, fps, cap_pos,
                   frame_range, frame_number, last_img, subtitle_present,
                   subtitle_start_frame, diff, diff_score, changed>>

\* Lines 200-201: every scene was processed; the completion report.
Finish ==
    /\ pc = "scene"
    /\ i >= Len(scene_list)
    /\ pc' = "done"
    /\ outcome' = "finished"
    /\ printed' = Append(printed, FinishedExtraction)
    /\ UNCHANGED <<inputs, others, temp_folder, crop_rect, scene_list, fps,
                   total_images_saved, i, detector, history>>

Next ==
    \/ PrepareFolder
    \/ SelectRegion
    \/ DetectScenes
    \/ OpenCapture
    \/ BeginScene
    \/ DecodeFailure
    \/ \E lv \in PixelLevels : ProcessFrame(lv)
    \/ EndScene
    \/ Finish

Spec == Init /\ [][Next]_vars

\* main is a sequential program: it keeps running until it returns.
FairSpec == Spec /\ WF_vars(Next)

(***************************************************************************)
(* frames_to_time_str on its own: it is called on two frame counts, the    *)
(* second not before the first, at one frame rate.                         *)
(***************************************************************************)
\* Frame rates given to the function: negative, zero and positive.
CodecRates == {-25, -5, 0, 1, 5, 25}

\* Elapsed times, in seconds, around which frame counts are taken: the
\* start, and the turns of the minute, the hour and the hundredth hour.
BoundarySeconds == {0, 59, 60, 3599, 3600, 359999, 360000}

\* Frames per second at which the frame counts of a rate are laid out.
FramesPerSecond(rate) == IF rate = 0 THEN DefaultFps ELSE Abs(rate)

\* The frame counts up to MaxOffset frames after each boundary.
FrameCounts(rate) ==
    {s * FramesPerSecond(rate) + k : s \in BoundarySeconds, k \in 0..MaxOffset}

Calls ==
    UNION {{[frame_count |-> f, later |-> g, fps |-> rate] :
               <<f, g>> \in {fg \in FrameCounts(rate) \X FrameCounts(rate) :
                                fg[1] <= fg[2]}} :
           rate \in CodecRates}

CodecInit ==
    /\ MainAtRest
    /\ OcrAtRest
    /\ TranslatorAtRest
    /\ SrtAtRest
    /\ LauncherAtRest
    /\ call \in Calls
    /\ ret = <<>>

\* The call on the first frame count returns.
Encode ==
    /\ call # None
    /\ ret = <<>>
    /\ ret' = <<frames_to_time_str(call.frame_count, call.fps)>>
    /\ UNCHANGED <<not_codec, call>>

\* The call on the later frame count returns.
EncodeLater ==
    /\ Len(ret) = 1
    /\ ret' = Append(ret, frames_to_time_str(call.later, call.fps))
    /\ UNCHANGED <<not_codec, call>>

CodecNext ==
    \/ Encode
    \/ EncodeLater

CodecSpec == CodecInit /\ [][CodecNext]_vars

(***************************************************************************)
(* ocr_image_with_google_drive, ocr_processor.py lines 40-97.              *)
(***************************************************************************)
\* What the image is recognised as: nothing, or two lines with the leading
\* underscore and the blank line that the post-processing removes.
TextContents == {"", "_ Hello\n\nWorld \n"}

\* HTTP statuses of a failed Drive request.
HttpStatuses == {403, 404, 500, 503}

\* Line 84: the statuses after which the call tries again.
RetryableStatuses == {403, 500, 503}

\* How a Drive request ends: with a response, with errors.HttpError, or with
\* another exception (no network, file not readable).
Response(id) == [kind |-> "ok", id |-> id]
HttpError(status) == [kind |-> "HttpError", status |-> status]
OtherException == [kind |-> "Exception"]
Errors == {HttpError(status) : status \in HttpStatuses} \cup {OtherException}

\* The document that the create request of this attempt makes.
NewDocument == [doc |-> Cardinality(created) + 1]

\* text.splitlines(), for a text whose lines end in "\n".
SplitLines(string) ==
    LET parts == Split(string, "\n")
    IN  IF Last(parts) = "" THEN AllButLast(parts) ELSE parts

\* text.lstrip(chars)
RECURSIVE LStrip(_, _)
LStrip(string, chars) ==
    IF string # "" /\ SubSeq(string, 1, 1) \in chars
    THEN LStrip(Tail(string), chars)
    ELSE string

\* text.rstrip(chars)
RECURSIVE RStrip(_, _)
RStrip(string, chars) ==
    IF string # "" /\ SubSeq(string, Len(string), Len(string)) \in chars
    THEN RStrip(SubSeq(string, 1, Len(string) - 1), chars)
    ELSE string

Whitespace == {" ", "\n", "\t"}

\* Lines 78-79: the non-empty lines joined by a space, without leading
\* underscores and spaces and without surrounding whitespace.
FinalText(string) ==
    LET cleaned_text ==
            Join(SelectSeq(SplitLines(string), LAMBDA line : line # ""), " ")
    IN  RStrip(LStrip(LStrip(cleaned_text, {"_", " "}), Whitespace), Whitespace)

OcrInit ==
    /\ MainAtRest
    /\ CodecAtRest
    /\ TranslatorAtRest
    /\ SrtAtRest
    /\ LauncherAtRest
    /\ ocr_pc = "while"
    /\ ocr_retries = 0
    /\ file_id = None
    /\ text_content \in TextContents
    /\ created = {}
    /\ deleted = {}
    /\ api_log = <<>>
    /\ ocr_ret = None

\* return text
OcrReturn(value) ==
    /\ ocr_pc' = "returned"
    /\ ocr_ret' = [text |-> value]

\* Lines 83-94: the two except clauses.
OcrExcept(e) ==
    IF e.kind = "HttpError" /\ e.status \in RetryableStatuses
    THEN /\ ocr_retries' = ocr_retries + 1
         /\ ocr_pc' = "while"
         /\ UNCHANGED ocr_ret
    ELSE /\ OcrReturn("")
         /\ UNCHANGED ocr_retries

\* The request is written to the log with how it ended.
Logged(request, id, result) ==
    api_log' = Append(api_log, [call |-> request, id |-> id, result |-> result])

\* Mutant of OcrLoopGoesOn: one more attempt, retries <= MAX_RETRIES.
OcrLoopGoesOnInclusive(n) == n <= MAX_RETRIES_OCR

\* Line 46: while retries < MAX_RETRIES.
OcrLoopGoesOn(n) == n < MAX_RETRIES_OCR

\* Line 46, and lines 96-97 when the loop ends.
OcrWhile ==
    /\ ocr_pc = "while"
    /\ IF OcrLoopGoesOn(ocr_retries)
       THEN ocr_pc' = "create" /\ UNCHANGED ocr_ret
       ELSE OcrReturn("")
    /\ UNCHANGED <<not_ocr, ocr_retries, file_id, text_content, created,
                   deleted, api_log>>

\* Lines 48-63: the upload that creates the document.
OcrCreate ==
    /\ ocr_pc = "create"
    /\ \E r \in {Response(NewDocument), Response(None)} \cup Errors :
          /\ Logged("create", None, r)
          /\ IF r.kind = "ok"
             THEN /\ file_id' = r.id
                  /\ UNCHANGED ocr_retries
                  /\ IF Truthy(r.id)
                     THEN /\ created' = created \cup {r.id}
                          /\ ocr_pc' = "export"
                          /\ UNCHANGED ocr_ret
                     ELSE /\ OcrReturn("")
                          /\ UNCHANGED created
             ELSE /\ OcrExcept(r)
                  /\ UNCHANGED <<file_id, created>>
    /\ UNCHANGED <<not_ocr, text_content, deleted>>

\* Lines 65-70: the export of the document as text, downloaded to the end.
OcrExport ==
    /\ ocr_pc = "export"
    /\ \E r \in {Response(file_id)} \cup Errors :
          /\ Logged("export", file_id, r)
          /\ IF r.kind = "ok"
             THEN ocr_pc' = "delete" /\ UNCHANGED <<ocr_retries, ocr_ret>>
             ELSE OcrExcept(r)
    /\ UNCHANGED <<not_ocr, file_id, text_content, created, deleted>>

\* Lines 72-80: the document is deleted and the cleaned text returned.
OcrDelete ==
    /\ ocr_pc = "delete"
    /\ \E r \in {Response(file_id)} \cup Errors :
          /\ Logged("delete", file_id, r)
          /\ IF r.kind = "ok"
             THEN /\ deleted' = deleted \cup {file_id}
                  /\ OcrReturn(FinalText(text_content))
                  /\ UNCHANGED ocr_retries
             ELSE /\ OcrExcept(r)
                  /\ UNCHANGED deleted
    /\ UNCHANGED <<not_ocr, file_id, text_content, created>>

OcrNext ==
    \/ OcrWhile
    \/ OcrCreate
    \/ OcrExport
    \/ OcrDelete

OcrSpec == OcrInit /\ [][OcrNext]_vars

\* The call runs in a worker thread that keeps running until it returns;
\* every Drive request ends, with a response or with an exception.
OcrFairSpec == OcrSpec /\ WF_vars(OcrNext)

(***************************************************************************)
(* translate_text_with_gemini, translator.py lines 49-95.                  *)
(***************************************************************************)
\* Texts given to the function.
Texts == {"", "Hello"}

\* requests.exceptions.RequestException: no connection or a timeout from
\* requests.post, an error status from raise_for_status.
RequestException(what) == [kind |-> "RequestException", message |-> what]
RequestExceptions ==
    {RequestException("ConnectionError"), RequestException("Timeout"),
     RequestException("HTTPError"), RequestException("JSONDecodeError")}

\* An exception of another class: response.json() raises a plain ValueError
\* for a body that is not JSON where the installed requests does not derive
\* its JSONDecodeError from RequestException.
ValueError == [kind |-> "Exception", message |-> "Expecting value"]

\* The body of a response, response.json(): an object with the list under
\* 'candidates', or one without that key.
Result(candidates) == [kind |-> "result", candidates |-> candidates]
ResultWithoutCandidates == [kind |-> "result"]

\* A candidate whose content has the given list of parts.
Candidate(parts) == [content |-> [parts |-> parts]]

\* A part holding a text, and a part that has no 'text'.
TextPart(string) == [text |-> string]
PartWithoutText == [role |-> "model"]

Results ==
    {ResultWithoutCandidates, Result(<<>>), Result(<<Candidate(<<>>)>>),
     Result(<<Candidate(<<PartWithoutText>>)>>),
     Result(<<Candidate(<<TextPart("")>>)>>),
     Result(<<Candidate(<<TextPart(" Xin chao\n")>>)>>)}

\* Lines 79-80: part.get('text', '') of the first part of the first
\* candidate; an empty list of parts raises IndexError.
TranslatedText(result) ==
    LET parts == result.candidates[1].content.parts
    IN  IF parts = <<>> THEN [raised |-> "list index out of range"]
        ELSE IF "text" \in DOMAIN parts[1] THEN [text |-> parts[1].text]
        ELSE [text |-> ""]

TranslatorInit ==
    /\ MainAtRest
    /\ CodecAtRest
    /\ OcrAtRest
    /\ SrtAtRest
    /\ LauncherAtRest
    /\ tr_pc = "enter"
    /\ tr_retries = 0
    /\ text \in Texts
    /\ tr_log = <<>>
    /\ tr_ret = None

\* return value
TranslatorReturn(value) ==
    /\ tr_pc' = "returned"
    /\ tr_ret' = [text |-> value]

\* Line 51: if not text: return "".
TranslatorEnter ==
    /\ tr_pc = "enter"
    /\ IF text = ""
       THEN TranslatorReturn("")
       ELSE tr_pc' = "while" /\ UNCHANGED tr_ret
    /\ UNCHANGED <<not_translator, tr_retries, text, tr_log>>

\* Line 72, and lines 94-95 when the loop ends.
TranslatorWhile ==
    /\ tr_pc = "while"
    /\ IF tr_retries < MAX_RETRIES_TRANSLATOR
       THEN tr_pc' = "post" /\ UNCHANGED tr_ret
       ELSE TranslatorReturn("[[Translation Failed]]")
    /\ UNCHANGED <<not_translator, tr_retries, text, tr_log>>

\* Mutant of TranslatorExcept: every exception is followed by a retry.
TranslatorExceptRetriesAll(e) ==
    /\ tr_retries' = tr_retries + 1
    /\ tr_pc' = "while"
    /\ UNCHANGED tr_ret

\* Lines 86-92: the two except clauses.
TranslatorExcept(e) ==
    IF e.kind = "RequestException"
    THEN /\ tr_retries' = tr_retries + 1
         /\ tr_pc' = "while"
         /\ UNCHANGED tr_ret
    ELSE /\ TranslatorReturn("[[Translation Error: " \o e.message \o "]]")
         /\ UNCHANGED tr_retries

\* Lines 73-92: one request and what is made of its response.
TranslatorPost ==
    /\ tr_pc = "post"
    /\ \E r \in RequestExceptions \cup {ValueError} \cup Results :
          /\ tr_log' = Append(tr_log, r)
          /\ IF r.kind # "result"
             THEN TranslatorExcept(r)
             ELSE IF "candidates" \in DOMAIN r /\ r.candidates # <<>>
             THEN LET translated_text == TranslatedText(r)
                  IN  IF "raised" \in DOMAIN translated_text
                      THEN TranslatorExcept(
                               [kind |-> "Exception",
                                message |-> translated_text.raised])
                      ELSE IF translated_text.text # ""
                      THEN /\ TranslatorReturn(
                                  RStrip(LStrip(translated_text.text,
                                                Whitespace), Whitespace))
                           /\ UNCHANGED tr_retries
                      ELSE /\ TranslatorReturn(
                                  "[[Translation Error: Unexpected Response]]")
                           /\ UNCHANGED tr_retries
             ELSE /\ TranslatorReturn(
                         "[[Translation Error: Unexpected Response]]")
                  /\ UNCHANGED tr_retries
    /\ UNCHANGED <<not_translator, text>>

TranslatorNext ==
    \/ TranslatorEnter
    \/ TranslatorWhile
    \/ TranslatorPost

TranslatorSpec == TranslatorInit /\ [][TranslatorNext]_vars

\* The call is sequential code that keeps running until it returns; every
\* request ends within its 60 s timeout.
TranslatorFairSpec == TranslatorSpec /\ WF_vars(TranslatorNext)

(***************************************************************************)
(* main of ocr_processor.py, lines 100-165: one worker per image runs      *)
(* ocr_image_with_google_drive, main collects the futures in the order     *)
(* they complete, keeps one block per start time, and writes the blocks in *)
(* the order of their keys.                                                *)
(***************************************************************************)
\* The names of the images the folder may hold: two with different start
\* times, one more that starts when the second does, and one that is no
\* pair of times.
ImageNames ==
    {"00_00_00_200__00_00_01_000.png",
     "00_00_01_200__00_00_02_000.png",
     "00_00_01_200__00_00_03_500.png",
     "cover.png"}

\* What a future returns: "" when nothing was recognised or the call
\* gave up, the recognised text otherwise.
OcrTexts == {"", "Hi"}

\* {}
NoBlocks == <<>>

\* Line 148: the value stored under start_time_srt.
SrtBlock(img_name, ocr_text) ==
    SrtTimeLine(img_name).line \o "\n" \o ocr_text \o "\n"

\* Lines 159-162: the strings written to the file, in order.
SrtContent(blocks) ==
    LET sorted_times == Sorted(DOMAIN blocks)
        Written(k) == <<ToString(k) \o "\n", blocks[sorted_times[k]] \o "\n">>
    IN  [n \in 1..(2 * Len(sorted_times)) |->
            Written((n + 1) \div 2)[2 - (n % 2)]]

SrtInit ==
    /\ srt_pc = "start"
    /\ credentials \in BOOLEAN
    /\ image_files \in SUBSET ImageNames
    /\ future_result \in [image_files -> OcrTexts]
    /\ pending = {}
    /\ processed_count = 0
    /\ srt_blocks = NoBlocks
    /\ srt_file = None
    /\ MainAtRest
    /\ CodecAtRest
    /\ OcrAtRest
    /\ TranslatorAtRest
    /\ LauncherAtRest

\* Lines 100-127: authentication, the list of images, one future per image.
SrtStart ==
    /\ srt_pc = "start"
    /\ IF ~credentials \/ image_files = {}
       THEN /\ srt_pc' = "returned"
            /\ pending' = pending
       ELSE /\ srt_pc' = "collect"
            /\ pending' = image_files
    /\ UNCHANGED <<credentials, image_files, future_result, processed_count,
                   srt_blocks, srt_file, not_srt>>

\* Lines 130-153: one iteration of the loop over as_completed, on whichever
\* future completed next.
SrtCollect(img_name) ==
    /\ srt_pc = "collect"
    /\ img_name \in pending
    /\ pending' = pending \ {img_name}
    /\ processed_count' = processed_count + 1
    /\ LET ocr_text == future_result[img_name]
       IN  IF ocr_text # "" /\ SrtTimeLine(img_name) # IndexError
           THEN srt_blocks' =
                    (StartTimeSrt(img_name) :> SrtBlock(img_name, ocr_text))
                    @@ srt_blocks
           ELSE srt_blocks' = srt_blocks
    /\ UNCHANGED <<srt_pc, credentials, image_files, future_result,
                   srt_file, not_srt>>

\* Lines 156-165: the file is written when there is a block to write.
SrtWrite ==
    /\ srt_pc = "collect"
    /\ pending = {}
    /\ srt_pc' = "returned"
    /\ IF srt_blocks # NoBlocks
       THEN srt_file' = [content |-> SrtContent(srt_blocks)]
       ELSE srt_file' = srt_file
    /\ UNCHANGED <<credentials, image_files, future_result, pending,
                   processed_count, srt_blocks, not_srt>>

SrtNext ==
    \/ SrtStart
    \/ \E img_name \in ImageNames : SrtCollect(img_name)
    \/ SrtWrite

SrtSpec == SrtInit /\ [][SrtNext]_vars

(***************************************************************************)
(* launcher.py: the handlers of the buttons run one at a time in the main  *)
(* thread; each started step has a read_process_output thread, each click  *)
(* on Load Models a fetch thread, and the statements of the threads        *)
(* interleave with the handlers and with each other.  A handler that       *)
(* returns after a warning (no video chosen, no API key, a missing folder  *)
(* or file) changes nothing and is a stuttering step.  The text of the log  *)
(* console is written and never read: the statements that log are part of  *)
(* the steps, the text is not part of the state.  Closing the window ends  *)
(* the program and is not modelled.                                        *)
(***************************************************************************)
\* The number of steps started in one session.
MaxRuns == 2

\* The number of fetch threads running at a time.
MaxFetches == 1

\* The number of lines a child process prints.
MaxLines == 1

\* The three steps.
Steps == {"extract", "ocr", "translate"}

\* What subprocess.Popen does at line 117.
PopenResults == {"started", "FileNotFoundError", "Exception"}

\* The state of a button, by the step it starts.
ButtonOf(step) ==
    CASE step = "extract"   -> extract_button
      [] step = "ocr"       -> ocr_button
      [] step = "translate" -> translate_button

\* Lines 238-242.
disable_buttons ==
    /\ extract_button' = "disabled"
    /\ ocr_button' = "disabled"
    /\ translate_button' = "disabled"
    /\ stop_button' = "normal"

\* Lines 244-248.
reset_buttons ==
    /\ extract_button' = "normal"
    /\ ocr_button' = "normal"
    /\ translate_button' = "normal"
    /\ stop_button' = "disabled"

\* A child process as the launcher sees it: whether it runs, how many lines
\* it has printed, and how many of them are still in the pipe.
NewChild == [status |-> "running", printed |-> 0, unread |-> 0]

\* A read_process_output thread: the statement it is at, and the process
\* whose pipe it reads from while it is inside readline.
NewReader == [pc |-> "130", obj |-> None]

LauncherInit ==
    /\ LauncherAtRest
    /\ MainAtRest
    /\ CodecAtRest
    /\ OcrAtRest
    /\ TranslatorAtRest
    /\ SrtAtRest

\* Lines 139-147, 149-161 and 163-192 with run_script, lines 115-126: a click
\* on the enabled button of a step.
RunStep(step, popen) ==
    /\ ButtonOf(step) = "normal"
    /\ Len(children) < MaxRuns
    /\ IF popen = "started"
       THEN /\ disable_buttons
            /\ process' = [pid |-> Len(children) + 1]
            /\ children' = Append(children, NewChild)
            /\ readers' = Append(readers, NewReader)
       ELSE /\ reset_buttons
            /\ UNCHANGED <<process, children, readers>>
    /\ UNCHANGED <<fetching, not_launcher>>

\* Lines 194-201 and 229: a click on Load Models with an API key entered.
LoadModels ==
    /\ fetching < MaxFetches
    /\ translate_button' = "disabled"
    /\ fetching' = fetching + 1
    /\ UNCHANGED <<process, extract_button, ocr_button, stop_button,
                   children, readers, not_launcher>>

\* Lines 203-227: a fetch thread gets its answer, logs it and ends.
Fetch ==
    /\ fetching > 0
    /\ translate_button' = "normal"
    /\ fetching' = fetching - 1
    /\ UNCHANGED <<process, extract_button, ocr_button, stop_button,
                   children, readers, not_launcher>>

\* Lines 231-236: a click on the enabled stop button.
StopProcess ==
    /\ stop_button = "normal"
    /\ process # None
    /\ children' = [children EXCEPT ![process.pid].status =
                       IF @ = "running" THEN "terminated" ELSE @]
    /\ process' = None
    /\ reset_buttons
    /\ UNCHANGED <<readers, fetching, not_launcher>>

\* A running child prints a line.
ChildPrints(n) ==
    /\ n \in DOMAIN children
    /\ children[n].status = "running"
    /\ children[n].printed < MaxLines
    /\ children' = [children EXCEPT ![n].printed = @ + 1, ![n].unread = @ + 1]
    /\ UNCHANGED <<process, buttons, readers, fetching, not_launcher>>

\* A running child ends by itself.
ChildExits(n) ==
    /\ n \in DOMAIN children
    /\ children[n].status = "running"
    /\ children' = [children EXCEPT ![n].status = "exited"]
    /\ UNCHANGED <<process, buttons, readers, fetching, not_launcher>>

\* Line 130: the test of self.process.
ReaderTest(t) ==
    /\ t \in DOMAIN readers
    /\ readers[t].pc = "130"
    /\ readers' = [readers EXCEPT ![t].pc =
                      IF process = None THEN "136" ELSE "131"]
    /\ UNCHANGED <<process, buttons, children, fetching, not_launcher>>

\* Line 131, self.process.stdout: AttributeError when self.process is None.
ReaderStdout(t) ==
    /\ t \in DOMAIN readers
    /\ readers[t].pc = "131"
    /\ readers' = [readers EXCEPT ![t] =
                      IF process = None
                      THEN [pc |-> "raised", obj |-> None]
                      ELSE [pc |-> "readline", obj |-> process]]
    /\ UNCHANGED <<process, buttons, children, fetching, not_launcher>>

\* Lines 131-133: readline returns a line, which is logged, or returns ""
\* once the process has ended and the pipe is empty; until then it blocks.
ReaderReadline(t) ==
    /\ t \in DOMAIN readers
    /\ readers[t].pc = "readline"
    /\ LET n == readers[t].obj.pid
       IN  \/ /\ children[n].unread > 0
              /\ children' = [children EXCEPT ![n].unread = @ - 1]
              /\ readers' = [readers EXCEPT ![t] = NewReader]
           \/ /\ children[n].unread = 0
              /\ children[n].status # "running"
              /\ readers' = [readers EXCEPT ![t] = [pc |-> "134", obj |-> None]]
              /\ UNCHANGED children
    /\ UNCHANGED <<process, buttons, fetching, not_launcher>>

\* Line 134, self.process.poll(): AttributeError when self.process is None,
\* else the loop ends when the process that self.process now names has ended.
ReaderPoll(t) ==
    /\ t \in DOMAIN readers
    /\ readers[t].pc = "134"
    /\ readers' = [readers EXCEPT ![t].pc =
                      IF process = None THEN "raised"
                      ELSE IF children[process.pid].status # "running"
                           THEN "136"
                           ELSE "130"]
    /\ UNCHANGED <<process, buttons, children, fetching, not_launcher>>

\* Lines 136-137: the end of the thread.
ReaderFinish(t) ==
    /\ t \in DOMAIN readers
    /\ readers[t].pc = "136"
    /\ reset_buttons
    /\ readers' = [readers EXCEPT ![t].pc = "finished"]
    /\ UNCHANGED <<process, children, fetching, not_launcher>>

LauncherNext ==
    \/ \E step \in Steps : \E popen \in PopenResults : RunStep(step, popen)
    \/ LoadModels
    \/ Fetch
    \/ StopProcess
    \/ \E n \in 1..MaxRuns : ChildPrints(n)
    \/ \E n \in 1..MaxRuns : ChildExits(n)
    \/ \E t \in 1..MaxRuns : ReaderTest(t)
    \/ \E t \in 1..MaxRuns : ReaderStdout(t)
    \/ \E t \in 1..MaxRuns : ReaderReadline(t)
    \/ \E t \in 1..MaxRuns : ReaderPoll(t)
    \/ \E t \in 1..MaxRuns : ReaderFinish(t)

LauncherSpec == LauncherInit /\ [][LauncherNext]_vars

(***************************************************************************)
(* Vocabulary of the properties.                                           *)
(***************************************************************************)
\* The scene window being processed (or just processed, at the flush).
CurrentScene == scene_list[i + 1]

\* This step is one iteration of the inner loop that compared the frame it
\* decoded with the previous sub-region.
ComparedFrame == pc = "frame" /\ pc' = "frame" /\ last_img # None

\* This step is the end of a scene whose frames were all processed.
ExhaustedScene == pc = "frame" /\ pc' = "scene"

\* The last interval written.
LastInterval == intervals[Len(intervals)]

\* This step wrote one interval, from start to end, as file and as count.
WroteInterval(start, end) ==
    /\ Len(intervals') = Len(intervals) + 1
    /\ intervals'[Len(intervals')].start_frame = start
    /\ intervals'[Len(intervals')].end_frame = end
    /\ total_images_saved' = total_images_saved + 1
    /\ ListDir(temp_folder') = ListDir(temp_folder) \cup {ImgName(start, end, fps)}

\* This step wrote nothing.
WroteNothing ==
    /\ intervals' = intervals
    /\ total_images_saved' = total_images_saved
    /\ temp_folder' = temp_folder

(***************************************************************************)
(* C1: while an interval is open, a frame whose diff_score is above the    *)
(* threshold changes neither the state nor the recorded start frame, and   *)
(* within a scene the start frame is only ever recorded on a step from     *)
(* IDLE to OPEN.                                                           *)
(***************************************************************************)
C1_OpenStaysOpen ==
    [][/\ (ComparedFrame /\ subtitle_present /\ diff_score' > change_threshold)
          => /\ subtitle_present'
             /\ subtitle_start_frame' = subtitle_start_frame
             /\ WroteNothing
       /\ (pc = "frame" /\ pc' = "frame"
           /\ subtitle_start_frame' # subtitle_start_frame)
          => (~subtitle_present /\ subtitle_present')]_vars

\* An above-threshold frame arrived while the interval was already open.
C1_Witness ==
    /\ pc = "frame"
    /\ subtitle_present
    /\ frame_number \in changed
    /\ frame_number - 1 \in changed
    /\ subtitle_start_frame < frame_number

(***************************************************************************)
(* C2: when an interval is open and frame c has diff_score <= the          *)
(* threshold, end_frame becomes c - 1, the interval start_frame..c - 1 is  *)
(* written iff (c - 1) - start_frame > min_duration_frames, and the        *)
(* detector is IDLE afterwards either way; the next above-threshold frame  *)
(* then opens an interval starting at that frame.                          *)
(***************************************************************************)
C2_CloseOnStableFrame ==
    [][/\ (ComparedFrame /\ subtitle_present /\ diff_score' <= change_threshold)
          => /\ sub_end_frame' = frame_number' - 1
             /\ ~subtitle_present'
             /\ IF (frame_number' - 1) - subtitle_start_frame > fps \div 5
                THEN WroteInterval(subtitle_start_frame, frame_number' - 1)
                ELSE WroteNothing
       /\ (ComparedFrame /\ ~subtitle_present /\ diff_score' > change_threshold)
          => /\ subtitle_present'
             /\ subtitle_start_frame' = frame_number']_vars

\* An interval was closed without being written and a later frame of the
\* scene opened a new one.
C2_Witness ==
    /\ pc = "frame"
    /\ subtitle_present
    /\ subtitle_start_frame = frame_number
    /\ intervals = <<>>
    /\ \E c \in changed : c + 1 < frame_number /\ c + 1 \notin changed

(***************************************************************************)
(* C3: debounce law.  On both emission paths (close on a below-threshold   *)
(* frame, end-of-scene flush) a candidate interval with                    *)
(* end_frame - start_frame <= floor(fps * 0.2) writes nothing: the files   *)
(* of the folder and the saved-image count stay as they were; and every    *)
(* interval ever written is longer than that.                              *)
(***************************************************************************)
C3_DebounceLaw ==
    [][/\ (/\ ComparedFrame /\ subtitle_present
           /\ diff_score' <= change_threshold
           /\ (frame_number' - 1) - subtitle_start_frame <= fps \div 5)
          => WroteNothing
       /\ (/\ pc \in {"frame", "broke"} /\ pc' = "scene"
           /\ subtitle_present
           /\ (CurrentScene.end - 1) - subtitle_start_frame <= fps \div 5)
          => WroteNothing
       /\ \A k \in DOMAIN intervals' :
             intervals'[k].end_frame - intervals'[k].start_frame > fps' \div 5]_vars

\* A candidate interval of at most the minimum duration has just been
\* rejected on a below-threshold frame, with a non-zero minimum.
C3_Witness ==
    /\ pc = "frame"
    /\ ~subtitle_present
    /\ frame_number - 1 \in changed
    /\ frame_number \notin changed
    /\ sub_end_frame = frame_number - 1
    /\ fps \div 5 > 0
    /\ sub_end_frame - subtitle_start_frame = fps \div 5

(***************************************************************************)
(* C4: end-of-scene flush.  If an interval is open when every frame of the *)
(* scene window has been processed, end_frame becomes scene.end - 1 and    *)
(* the interval is written under the same duration check as a normal       *)
(* close: written iff (scene.end - 1) - start_frame > floor(fps * 0.2).    *)
(***************************************************************************)
C4_EndOfSceneFlush ==
    [][(ExhaustedScene /\ subtitle_present)
       => /\ sub_end_frame' = CurrentScene.end - 1
          /\ IF (CurrentScene.end - 1) - subtitle_start_frame > fps \div 5
             THEN /\ WroteInterval(subtitle_start_frame, CurrentScene.end - 1)
                  /\ intervals'[Len(intervals')].image = last_img
             ELSE WroteNothing]_vars

\* A scene whose frames were all decoded ended with the interval open, and
\* the flush wrote it.
C4_Witness ==
    /\ pc = "scene"
    /\ i >= 1
    /\ cap_pos = scene_list[i].end
    /\ subtitle_present
    /\ intervals # <<>>
    /\ LastInterval.path = "flush"
    /\ LastInterval.scene = i - 1
    /\ LastInterval.end_frame = scene_list[i].end - 1

(***************************************************************************)
(* C5: a scene, decoded to its end, whose diff_score was above the         *)
(* threshold exactly on the frames a..b-1 (a after the scene's first       *)
(* frame, b before the scene's end) yields, when (b - 1) - a >             *)
(* floor(fps * 0.2), exactly one interval, with start_frame = a and        *)
(* end_frame = b - 1.                                                      *)
(***************************************************************************)
\* The intervals written for scene k.
IntervalsOf(k) == SelectSeq(intervals, LAMBDA iv : iv.scene = k)

C5_SingleBurst ==
    (pc = "scene" /\ i >= 1 /\ cap_pos = scene_list[i].end)
    => \A a, b \in (scene_list[i].start + 1)..(scene_list[i].end - 1) :
          (a < b /\ changed = a..(b - 1) /\ (b - 1) - a > fps \div 5)
          => /\ Len(IntervalsOf(i - 1)) = 1
             /\ IntervalsOf(i - 1)[1].start_frame = a
             /\ IntervalsOf(i - 1)[1].end_frame = b - 1

\* Such a scene has been processed: one burst of change, long enough, that
\* ended before the scene did.
C5_Witness ==
    /\ pc = "scene" /\ i >= 1 /\ cap_pos = scene_list[i].end
    /\ \E a, b \in (scene_list[i].start + 1)..(scene_list[i].end - 1) :
          /\ a < b /\ changed = a..(b - 1) /\ (b - 1) - a > fps \div 5
          /\ fps > 0
          /\ Len(IntervalsOf(i - 1)) = 1

(***************************************************************************)
(* C6: the image written for an interval that closes on a below-threshold  *)
(* frame c is the sub-region stored at the previous step, the sub-region   *)
(* of frame c - 1 = end_frame, never that of frame c.                      *)
(***************************************************************************)
C6_PreviousSubRegionWritten ==
    [][(ComparedFrame /\ total_images_saved' # total_images_saved)
       => /\ File(ImgName(subtitle_start_frame, frame_number' - 1, fps), last_img)
                \in temp_folder'.files
          /\ last_img.frame = frame_number' - 1
          /\ intervals'[Len(intervals')].image.frame
                = intervals'[Len(intervals')].end_frame
          /\ \A f \in temp_folder'.files \ temp_folder.files :
                f.content.frame # frame_number']_vars

\* An interval has just been closed by a below-threshold frame and written.
C6_Witness ==
    /\ pc = "frame"
    /\ intervals # <<>>
    /\ LastInterval.path = "close"
    /\ LastInterval.end_frame = frame_number - 1
    /\ last_img.frame = frame_number
    /\ last_img.level # LastInterval.image.level

(***************************************************************************)
(* C7: when the first frame of a scene is taken the detector is IDLE with  *)
(* no previous sub-region, whatever the previous scene left behind; that   *)
(* frame is compared with nothing and opens or closes nothing; and the two *)
(* frames of every comparison are consecutive frames of the current scene. *)
(***************************************************************************)
C7_FreshDetectorPerScene ==
    [][/\ (pc = "frame" /\ frame_range.lo = CurrentScene.start)
          => /\ last_img = None
             /\ ~subtitle_present
       /\ (pc = "frame" /\ pc' = "frame" /\ frame_number' = CurrentScene.start)
          => /\ diff' = diff
             /\ diff_score' = diff_score
             /\ subtitle_present' = subtitle_present
             /\ WroteNothing
       /\ (pc = "frame" /\ pc' = "frame" /\ diff' # diff)
          => /\ diff'.of = <<frame_number', frame_number' - 1>>
             /\ CurrentScene.start <= frame_number' - 1
             /\ frame_number' < CurrentScene.end]_vars

\* The first frame of a later scene has been taken after the scene before it
\* ended with its interval open.
C7_Witness ==
    /\ pc = "frame"
    /\ i >= 1
    /\ frame_number = CurrentScene.start
    /\ last_img # None /\ last_img.frame = frame_number
    /\ ~subtitle_present
    /\ intervals # <<>>
    /\ LastInterval.path = "flush"
    /\ LastInterval.scene = i - 1

(***************************************************************************)
(* C8: a decode failure is local to its scene.  The step on which          *)
(* cap.read() fails writes nothing and leaves the inner loop; the run then *)
(* moves to the next scene, which starts with a fresh detector state; no   *)
(* file of the folder is removed or overwritten once the folder has been   *)
(* prepared; and after a decode failure the run always reaches the         *)
(* completion report.                                                      *)
(***************************************************************************)
\* This step is an iteration of the inner loop whose cap.read() failed: the
\* frame range advanced, the decode cursor did not.
ReadFailedStep ==
    pc = "frame" /\ frame_range' # frame_range /\ cap_pos' = cap_pos

\* A read of the current scene has failed: the frame range is ahead of the
\* decode cursor.
ReadHasFailed == pc # "scene" /\ frame_range.lo = cap_pos + 1

C8_DecodeFailureIsLocal ==
    /\ [][/\ ReadFailedStep
             => /\ WroteNothing
                /\ pc' \notin {"frame", "done"}
                /\ i' = i
          /\ (pc \notin {"start", "frame", "scene"} /\ ReadHasFailed)
             => /\ pc' = "scene"
                /\ i' = i + 1
                /\ cap_pos' = cap_pos
                /\ frame_range' = frame_range
          /\ (pc = "scene" /\ pc' = "frame")
             => /\ i' = i
                /\ last_img' = None
                /\ ~subtitle_present'
                /\ cap_pos' = CurrentScene.start
          /\ pc # "start" => temp_folder.files \subseteq temp_folder'.files]_vars
    /\ ReadHasFailed ~> (pc = "done" /\ outcome = "finished")

\* A read failed in a scene that had already written an interval and is not
\* the last scene, while an interval was open.
C8_Witness ==
    /\ ReadHasFailed
    /\ pc # "done"
    /\ i + 1 < Len(scene_list)
    /\ subtitle_present
    /\ intervals # <<>>
    /\ LastInterval.scene = i

(***************************************************************************)
(* C9: when scene detection yields no window, the run ends in the          *)
(* "nothing to extract" outcome and not in a fault, writes no image, and   *)
(* leaves the output folder existing and without any .png file.            *)
(***************************************************************************)
C9_NothingToExtract ==
    /\ (pc = "done" /\ video_ok /\ Truthy(crop_rect) /\ scene_list = <<>>)
       => outcome = "no_scenes"
    /\ outcome = "no_scenes"
       => /\ pc = "done"
          /\ scene_list = <<>>
          /\ temp_folder.exists
          /\ PngFiles(temp_folder) = {}
          /\ total_images_saved = 0
          /\ intervals = <<>>

\* A run over a folder that held an old image ended with nothing to extract.
C9_Witness ==
    /\ outcome = "no_scenes"
    /\ PngFiles(initial_folder) # {}
    /\ ListDir(temp_folder) # {}

(***************************************************************************)
(* C10: a run that aborts on a configuration error (no rectangle, or a     *)
(* video that cannot be opened) has processed no scene and leaves the      *)
(* files of the output folder as they were before the run, the .png files  *)
(* included; at most the folder itself was created.                        *)
(***************************************************************************)
C10_AbortLeavesFolderContents ==
    outcome \in {"no_region", "exception"}
    => /\ pc = "done"
       /\ scene_list = <<>>
       /\ intervals = <<>>
       /\ temp_folder.files = initial_folder.files

(***************************************************************************)
(* C11.  A video that cannot be opened is reported as such: the run never  *)
(* ends in the "no subtitle region selected" outcome, never prints that    *)
(* line, and never reaches scene processing.                               *)
(***************************************************************************)
Lines(seq) == {seq[k] : k \in 1..Len(seq)}

C11_UnopenableVideoReportedAsSuch ==
    ~video_ok =>
        /\ outcome # "no_region"
        /\ NoRegionSelected \notin Lines(printed)
        /\ pc \notin {"open", "scene", "frame", "broke"}

(***************************************************************************)
(* C12.  Full wipe: whatever the output folder held before the run, when   *)
(* the run has completed the .png files of the folder are exactly the      *)
(* files the run wrote, so the outcome does not depend on what an earlier  *)
(* run left behind.                                                        *)
(***************************************************************************)
EmittedNames == {intervals[k].name : k \in 1..Len(intervals)}

C12_FullWipeIdempotence ==
    outcome = "finished" => PngFiles(temp_folder) = EmittedNames

\* A completed run that wrote an image into a folder whose old image is gone.
C12_Witness ==
    /\ outcome = "finished"
    /\ intervals # <<>>
    /\ PngFiles(initial_folder) # {}
    /\ PngFiles(initial_folder) \cap PngFiles(temp_folder) = {}

(***************************************************************************)
(* C13.  For scene windows that do not overlap, the count reported at      *)
(* completion is the number of intervals written over all scenes and the   *)
(* number of .png files in the output folder: no two intervals of a run    *)
(* share a file name, so no write replaces an earlier image of the run.    *)
(***************************************************************************)
NonOverlapping(sl) ==
    \A k \in 1..Len(sl) : \A l \in 1..Len(sl) :
        k < l => sl[k].end <= sl[l].start

C13_CountMatchesArtifacts ==
    (outcome = "finished" /\ NonOverlapping(scene_list))
    => /\ total_images_saved = Len(intervals)
       /\ total_images_saved = Cardinality(PngFiles(temp_folder))
       /\ \A k \in 1..Len(intervals) : \A l \in 1..Len(intervals) :
              k # l => intervals[k].name # intervals[l].name

\* A completed run that wrote two images, whose folder had held an old one.
C13_Witness ==
    /\ outcome = "finished"
    /\ total_images_saved = 2
    /\ Cardinality(PngFiles(temp_folder)) = 2
    /\ PngFiles(initial_folder) # {}

(***************************************************************************)
(* C14.  Wire-format round trip: every image the driver writes is named    *)
(* <encode(start_frame)>__<encode(end_frame)>.png, and the OCR stage       *)
(* parses that name into the line "HH:MM:SS,mmm --> HH:MM:SS,mmm" whose    *)
(* fields are the hours, minutes, seconds and milliseconds that were       *)
(* encoded for start_frame and for end_frame.                              *)
(***************************************************************************)
\* HH:MM:SS,mmm of the fields t.
SrtTime(t) ==
    FormatD(t.hours, 2) \o ":" \o FormatD(t.minutes, 2) \o ":"
    \o FormatD(t.seconds, 2) \o "," \o FormatD(t.ms, 3)

RoundTrips(iv) ==
    /\ iv.name \in ListDir(temp_folder')
    /\ iv.name = frames_to_time_str(iv.start_frame, fps) \o "__"
                 \o frames_to_time_str(iv.end_frame, fps) \o ".png"
    /\ SrtTimeLine(iv.name) =
           [line |-> SrtTime(TimeFields(iv.start_frame, fps)) \o " --> "
                     \o SrtTime(TimeFields(iv.end_frame, fps))]

C14_WireFormatRoundTrip ==
    [][Len(intervals') > Len(intervals) => RoundTrips(LastInterval')]_vars

\* An image was written whose end time has milliseconds truncated below.
C14_Witness ==
    /\ intervals # <<>>
    /\ fps > 0
    /\ LastInterval.end_frame \in TruncatedBelow[fps]
    /\ SrtTimeLine(LastInterval.name) # IndexError

(***************************************************************************)
(* Vocabulary of the codec's properties.                                   *)
(***************************************************************************)
IsDigit(c) == c \in {"0", "1", "2", "3", "4", "5", "6", "7", "8", "9"}

\* The value of a string of two or three digits.
DigitsValue(s) ==
    LET d(k) == CHOOSE n \in 0..9 : ToString(n) = CharAt(s, k)
    IN  IF Len(s) = 2 THEN 10 * d(1) + d(2)
                      ELSE 100 * d(1) + 10 * d(2) + d(3)

\* s matches \d{2}_\d{2}_\d{2}_\d{3}, with minutes and seconds in 0..59.
WellFormed(s) ==
    /\ Len(s) = 12
    /\ \A k \in {3, 6, 9} : CharAt(s, k) = "_"
    /\ \A k \in (1..12) \ {3, 6, 9} : IsDigit(CharAt(s, k))
    /\ DigitsValue(SubSeq(s, 4, 5)) \in 0..59
    /\ DigitsValue(SubSeq(s, 7, 8)) \in 0..59
    /\ DigitsValue(SubSeq(s, 10, 12)) \in 0..999

\* Both calls have returned.
Returned == Len(ret) = 2

\* One hundred hours, in seconds: the first elapsed time whose hours do not
\* fit two digits.
HundredHours == 100 * 3600

C16_NonPositiveRateIsDefaultRate ==
    (Returned /\ call.fps <= 0)
    => /\ ret[1] = frames_to_time_str(call.frame_count, DefaultFps)
       /\ ret[2] = frames_to_time_str(call.later, DefaultFps)

(***************************************************************************)
(* Vocabulary of the properties of ocr_image_with_google_drive.            *)
(***************************************************************************)
\* This step made a Drive request; its result.
OcrRequested == Len(api_log') = Len(api_log) + 1
OcrResult == api_log'[Len(api_log')].result

\* The result is an HTTP error with status 403, 500 or 503.
IsRetryable(r) == r.kind = "HttpError" /\ r.status \in {403, 500, 503}

\* The number of attempts: each one starts with a create request.
OcrAttempts == Cardinality({k \in 1..Len(api_log) : api_log[k].call = "create"})

OcrReturned == ocr_pc = "returned"

(***************************************************************************)
(* C17.  ocr_image_with_google_drive returns on every path.  A request     *)
(* that fails with HTTP status 403, 500 or 503 does not end the call: the  *)
(* call goes back to the loop test, which starts another attempt while     *)
(* fewer than MAX_RETRIES have failed.  A request that fails in any other  *)
(* way makes the call return "" in that step, with no further request.  A  *)
(* call in which every attempt failed with a retryable status has made     *)
(* exactly MAX_RETRIES = 3 attempts and returns "".                        *)
(***************************************************************************)
C17_OcrRetriesAndReturns ==
    /\ [][OcrRequested =>
            /\ IsRetryable(OcrResult)
               => /\ ~OcrReturned'
                  /\ ocr_pc' = "while"
                  /\ ocr_retries' = ocr_retries + 1
            /\ (OcrResult.kind # "ok" /\ ~IsRetryable(OcrResult))
               => /\ OcrReturned'
                  /\ ocr_ret' = [text |-> ""]]_vars
    /\ [][(ocr_pc = "while" /\ ocr_retries < 3) => ocr_pc' = "create"]_vars
    /\ [][OcrReturned => ~OcrRequested]_vars
    /\ []((OcrReturned /\ api_log # <<>>
           /\ IsRetryable(api_log[Len(api_log)].result))
          => (OcrAttempts = 3 /\ ocr_ret = [text |-> ""]))
    /\ [](OcrAttempts <= 3)
    /\ <>OcrReturned

\* The call gave up after three attempts that failed with the statuses 403,
\* 500 and 503, at the create, the export and the delete request.
C17_Witness ==
    /\ OcrReturned
    /\ OcrAttempts = 3
    /\ ocr_ret = [text |-> ""]
    /\ \A k \in 1..Len(api_log) :
          api_log[k].result.kind = "ok" \/ IsRetryable(api_log[k].result)
    /\ {api_log[k].call : k \in {l \in 1..Len(api_log) :
                                   IsRetryable(api_log[l].result)}}
       = {"create", "export", "delete"}

(***************************************************************************)
(* Vocabulary of the properties of translate_text_with_gemini.             *)
(***************************************************************************)
\* This step sent a request; how it ended.
TranslatorRequested == Len(tr_log') = Len(tr_log) + 1
TranslatorResult == tr_log'[Len(tr_log')]

TranslatorReturned == tr_pc = "returned"

\* The request raised a network or HTTP error.
IsNetworkError(r) == r.kind = "RequestException"

\* The response carries a non-empty text in the first part of its first
\* candidate.
HasTranslation(r) ==
    /\ r.kind = "result"
    /\ "candidates" \in DOMAIN r
    /\ r.candidates # <<>>
    /\ r.candidates[1].content.parts # <<>>
    /\ "text" \in DOMAIN r.candidates[1].content.parts[1]
    /\ r.candidates[1].content.parts[1].text # ""

\* s starts with the given prefix.
StartsWith(s, prefix) ==
    Len(s) >= Len(prefix) /\ SubSeq(s, 1, Len(prefix)) = prefix

\* The value is one of the error markers "[[Translation Error: ...]]".
IsErrorMarker(value) ==
    StartsWith(value.text, "[[Translation Error: ") /\ EndsWith(value.text, "]]")

(***************************************************************************)
(* C18.  translate_text_with_gemini returns on every path.  Empty text     *)
(* returns "" and no request is sent.  A request that raises a network or  *)
(* HTTP error does not end the call, and another request follows until     *)
(* MAX_RETRIES = 5 requests have failed; then the call returns             *)
(* "[[Translation Failed]]".  A response of unexpected structure or any    *)
(* other exception makes the call return an error marker in that step,     *)
(* and no request follows a return.                                        *)
(***************************************************************************)
C18_TranslatorRetriesAndReturns ==
    /\ []((TranslatorReturned /\ text = "")
          => (tr_ret = [text |-> ""] /\ tr_log = <<>>))
    /\ [][TranslatorRequested =>
            /\ IsNetworkError(TranslatorResult)
               => /\ ~TranslatorReturned'
                  /\ tr_pc' = "while"
                  /\ tr_retries' = tr_retries + 1
            /\ (~IsNetworkError(TranslatorResult)
                /\ ~HasTranslation(TranslatorResult))
               => /\ TranslatorReturned'
                  /\ IsErrorMarker(tr_ret')]_vars
    /\ [][(tr_pc = "while" /\ Len(tr_log) < 5) => tr_pc' = "post"]_vars
    /\ [][TranslatorReturned => ~TranslatorRequested]_vars
    /\ []((TranslatorReturned /\ tr_log # <<>>
           /\ IsNetworkError(tr_log[Len(tr_log)]))
          => (Len(tr_log) = 5 /\ tr_ret = [text |-> "[[Translation Failed]]"]))
    /\ [](Len(tr_log) <= 5)
    /\ <>TranslatorReturned

\* Five requests failed, with a connection error and with an HTTP error
\* among them, and the call returned the failure marker.
C18_Witness ==
    /\ TranslatorReturned
    /\ Len(tr_log) = 5
    /\ tr_ret = [text |-> "[[Translation Failed]]"]
    /\ \E k \in 1..5 : tr_log[k].message = "ConnectionError"
    /\ \E k \in 1..5 : tr_log[k].message = "HTTPError"

(***************************************************************************)
(* C19.  Every interval written at a positive frame rate lies strictly     *)
(* inside its scene window and is non-degenerate:                          *)
(* scene.start < start_frame < end_frame <= scene.end - 1.  No image is    *)
(* written for an interval with end_frame <= start_frame, and no interval  *)
(* spans two scenes.                                                       *)
(***************************************************************************)
InsideScene(iv) ==
    LET scene == scene_list[iv.scene + 1]
    IN  /\ scene.start < iv.start_frame
        /\ iv.start_frame < iv.end_frame
        /\ iv.end_frame <= scene.end - 1

C19_IntervalInsideScene ==
    fps > 0 => \A k \in 1..Len(intervals) : InsideScene(intervals[k])

\* At a positive rate, an interval of the second scene was flushed at the
\* end of its window.
C19_Witness ==
    /\ fps > 0
    /\ \E k \in 1..Len(intervals) :
          /\ intervals[k].scene = 1
          /\ intervals[k].path = "flush"
          /\ intervals[k].end_frame = scene_list[2].end - 1

(***************************************************************************)
(* C20.  The end_frame of every interval written is a frame that was       *)
(* decoded, and the image written is the sub-region of that frame; on the  *)
(* close and on the end-of-scene flush alike, also when the scene was cut  *)
(* short by a failed read while an interval was open.                      *)
(***************************************************************************)
C20_EndFrameIsTheImageFrame ==
    \A k \in 1..Len(intervals) :
        /\ intervals[k].image # None
        /\ intervals[k].image.frame = intervals[k].end_frame

(***************************************************************************)
(* C21.  Intervals are written in increasing, separated frame order: an    *)
(* interval written after another one of the same scene starts at least    *)
(* two frames after the end of the earlier one, and when the scene windows *)
(* are ordered and do not overlap no two intervals of a run overlap.       *)
(***************************************************************************)
C21_IntervalsSeparated ==
    \A k \in 1..Len(intervals) : \A l \in 1..Len(intervals) :
        k < l =>
            /\ intervals[k].scene = intervals[l].scene
               => intervals[l].start_frame >= intervals[k].end_frame + 2
            /\ NonOverlapping(scene_list)
               => intervals[k].end_frame < intervals[l].start_frame

\* Two intervals of one scene, the second starting exactly two frames after
\* the end of the first.
C21_Witness ==
    /\ Len(intervals) = 2
    /\ intervals[1].scene = intervals[2].scene
    /\ intervals[1].path = "close"
    /\ intervals[2].start_frame = intervals[1].end_frame + 2

(***************************************************************************)
(* Vocabulary of the properties of main of ocr_processor.py.               *)
(***************************************************************************)
\* The images whose future returned a text.
ImagesWithText == {n \in image_files : future_result[n] # ""}

\* The ways of putting the images of a set in a row.
Orderings(images) ==
    {f \in [1..Cardinality(images) -> images] :
        \A k, l \in DOMAIN f : f[k] = f[l] => k = l}

\* The file holds the blocks of these images in this order, numbered from 1.
HoldsBlocksOf(order) ==
    /\ srt_file # None
    /\ Len(srt_file.content) = 2 * Len(order)
    /\ \A k \in DOMAIN order :
        /\ SrtTimeLine(order[k]) # IndexError
        /\ srt_file.content[2 * k - 1] = ToString(k) \o "\n"
        /\ srt_file.content[2 * k] =
               SrtBlock(order[k], future_result[order[k]]) \o "\n"
        /\ k > 1 => StrLeq(StartTimeSrt(order[k - 1]), StartTimeSrt(order[k]))

\* main got through the authentication and the list of images and is over.
SrtFinished == srt_pc = "returned" /\ credentials /\ image_files # {}

(***************************************************************************)
(* C22: when main of ocr_processor.py is over, the SRT file holds one      *)
(* block per image whose OCR text is non-empty, in ascending order of      *)
(* start time, numbered 1..n, whatever the order in which the futures      *)
(* completed; it is written only when there is such an image.              *)
(***************************************************************************)
C22_SrtIsFunctionOfResults ==
    SrtFinished =>
        IF ImagesWithText = {} THEN srt_file = None
        ELSE \E order \in Orderings(ImagesWithText) : HoldsBlocksOf(order)

\* A delete of this document has been requested, whatever its result.
DeleteIssued(d) ==
    \E k \in 1..Len(api_log) : api_log[k].call = "delete" /\ api_log[k].id = d

(***************************************************************************)
(* C23: when ocr_image_with_google_drive has returned, a delete has been   *)
(* requested for every document it created on Drive, on every path.        *)
(***************************************************************************)
C23_NoDocumentLeftBehind ==
    OcrReturned => \A d \in created : DeleteIssued(d)

(***************************************************************************)
(* Vocabulary of the properties of the launcher.                           *)
(***************************************************************************)
\* The child processes that are running.
Running == {n \in DOMAIN children : children[n].status = "running"}

(***************************************************************************)
(* C24: the launcher runs at most one child process at a time, and while   *)
(* a child process runs the Extract, OCR and Translate buttons are         *)
(* disabled and the Stop button is enabled.                                *)
(***************************************************************************)
C24_OneStepAtATime ==
    /\ Cardinality(Running) <= 1
    /\ Running # {} =>
        /\ extract_button = "disabled"
        /\ ocr_button = "disabled"
        /\ translate_button = "disabled"
        /\ stop_button = "normal"

(***************************************************************************)
(* C25: no read_process_output thread ends by raising, which is what a     *)
(* use of self.process after stop_process set it to None does.             *)
(***************************************************************************)
C25_ReaderNeverRaises ==
    \A t \in DOMAIN readers : readers[t].pc # "raised"

=============================================================================
